---------------------------- MODULE Spec2Model ----------------------------
(***************************************************************************)
(* Model of app_hybrid_final_v8.py: a Streamlit page that encodes a form   *)
(* submission, calls a trained classifier, applies rule-based overrides,   *)
(* appends the outcome to a session log and shows tips and charts.         *)
(*                                                                         *)
(* Numbers.  Confidence scores are exact fixed-point numbers in            *)
(* thousandths (1000 stands for 1.0, 700 for 0.7); every enumerated model  *)
(* output is a multiple of 10, so that "score * 0.3" is exact.             *)
(* sleep_duration is in hundredths of an hour, the float slider's step     *)
(* (600 stands for 6.0 hours).  Class indexes are 0-based as in the code;  *)
(* TLA+ sequences are 1-based, so class i is entry i + 1.                  *)
(*                                                                         *)
(* One script run with the form submitted is three consecutive steps:      *)
(* Submit (lines 67-129), Tips (131-139) and Charts (141-162).  No other   *)
(* action is enabled between them.  An exception ends the run at once.     *)
(***************************************************************************)
EXTENDS Integers, Sequences, FiniteSets, TLC

VARIABLES
    logs,               \* st.session_state.logs
    submitted,          \* form_submit_button's value in the latest run
    gender, age, bmi_category, daily_steps,
    sleep_duration, quality_of_sleep, physical_activity, stress_level,
    input_data,         \* the 8 features handed to model.predict
    calls,              \* model.predict calls made by the latest run
    prediction,         \* what model.predict returned (flattened)
    predicted_class, result, override, confidence_scores,
    input_tips,
    pc,                 \* position of the running script: idle, tips, charts
    error,              \* exception that ended the latest run with its line, or "none"
    completed,          \* history: entries written by runs that ended without exception
    tip_calls           \* history: arguments and result of every generate_input_tips call

widgets == <<gender, age, bmi_category, daily_steps,
             sleep_duration, quality_of_sleep, physical_activity, stress_level>>
locals == <<input_data, calls, prediction, predicted_class, result, override,
            confidence_scores>>
vars == <<logs, submitted, widgets, locals, input_tips, pc, error, completed, tip_calls>>

-----------------------------------------------------------------------------
(* Bounds of the model *)

\* submissions of one session that reach the log
MaxLogs == 3

(* Values of the form widgets (lines 53-62) *)
GenderOptions == {"Male", "Female"}
BmiOptions == <<"Underweight", "Normal", "Overweight", "Obese">>

\* Each field's values lie on both sides of every threshold the code compares
\* the field with, inside the widget's range.
SleepValues == {0, 400, 401, 599, 600, 699, 700, 900, 901, 1200}
QualityValues == {1, 3, 4, 6, 7, 10}
ActivityValues == {0, 1, 2, 3, 4, 10}
StressValues == {0, 3, 4, 5, 6, 7, 8, 9, 10}

Default == [gender |-> "Male", age |-> 25, bmi_category |-> "Underweight",
            daily_steps |-> 5000, sleep_duration |-> 600, quality_of_sleep |-> 5,
            physical_activity |-> 5, stress_level |-> 5]

\* inputs that exercise the override rules: the four fields the rules read vary
RuleInputs ==
    {[Default EXCEPT !.sleep_duration = sl, !.quality_of_sleep = q,
                     !.physical_activity = p, !.stress_level = s] :
        sl \in SleepValues, q \in QualityValues, p \in ActivityValues, s \in StressValues}

\* inputs that exercise the encoding and the tips: every field varies
TipInputs ==
    [gender : GenderOptions, age : {60, 61},
     bmi_category : {BmiOptions[i] : i \in 1..4},
     daily_steps : {2999, 3000}, sleep_duration : {599, 600, 900, 901},
     quality_of_sleep : {3, 4}, physical_activity : {0, 2, 3},
     stress_level : {6, 7}]

\* the two inputs the specification gives as examples
AnxietyExample ==
    [Default EXCEPT !.bmi_category = "Normal", !.stress_level = 9, !.quality_of_sleep = 2]
NoTipsExample ==
    [Default EXCEPT !.bmi_category = "Normal", !.age = 30, !.sleep_duration = 700,
                    !.quality_of_sleep = 8, !.stress_level = 2, !.daily_steps = 8000]

FormInputs == RuleInputs \cup TipInputs \cup {AnxietyExample, NoTipsExample}

\* The inputs of the session specification: the spec's two examples, the form's
\* defaults and one input of the depression rule.
SessionInputs ==
    { Default, AnxietyExample, NoTipsExample,
      [Default EXCEPT !.sleep_duration = 400, !.physical_activity = 0, !.stress_level = 6] }

\* Model outputs: probability vectors, vectors that are no probabilities, and
\* vectors of another length than the three classes.
ProbabilityOutputs ==
    { <<100, 200, 700>>, <<700, 200, 100>>, <<200, 700, 100>>,
      <<500, 500, 0>>, <<0, 500, 500>>, <<300, 400, 300>>,
      <<1000, 0, 0>>, <<0, 1000, 0>>, <<0, 0, 1000>> }
OtherOutputs == { <<300, 300, 300>>, <<2500, 100, 0>>, <<0, 100, 2500>> }
MalformedOutputs ==
    { << >>, <<600, 400>>, <<400, 600>>, <<100, 200, 300, 400>>, <<400, 300, 200, 100>> }
ModelOutputs == ProbabilityOutputs \cup OtherOutputs \cup MalformedOutputs
SessionOutputs == { <<100, 200, 700>>, <<0, 500, 500>>, <<600, 400>> }

-----------------------------------------------------------------------------
(* Helpers of the Python and numpy semantics *)

RECURSIVE MaxOf(_)
\* np.max of a non-empty vector
MaxOf(v) == IF Len(v) = 1 THEN v[1]
            ELSE LET m == MaxOf(Tail(v)) IN IF v[1] >= m THEN v[1] ELSE m

\* mutant: the last maximum wins a tie
argmaxLast(v) == CHOOSE i \in 0..(Len(v) - 1) :
                    /\ \A j \in 0..(Len(v) - 1) : v[j + 1] <= v[i + 1]
                    /\ \A j \in (i + 1)..(Len(v) - 1) : v[j + 1] < v[i + 1]

\* np.argmax: the 0-based index of the first maximum
argmax(v) == CHOOSE i \in 0..(Len(v) - 1) :
                /\ \A j \in 0..(Len(v) - 1) : v[j + 1] <= v[i + 1]
                /\ \A j \in 0..(i - 1) : v[j + 1] < v[i + 1]

\* label_map = {0: "No Disorder", 1: "Anxiety", 2: "Depression"}, as the list of its values
label_map == <<"No Disorder", "Anxiety", "Depression">>

\* list(label_map.values()).index(name)
LabelIndex(name) == CHOOSE i \in 0..2 : label_map[i + 1] = name

None == "None"


-----------------------------------------------------------------------------
(* The feature vector, lines 68-73 *)

\* 1 if gender == "Male" else 0
GenderVal(g) == IF g = "Male" THEN 1 ELSE 0

\* ["Underweight", "Normal", "Overweight", "Obese"].index(bmi_category)
BmiVal(b) == (CHOOSE i \in 1..Len(BmiOptions) : BmiOptions[i] = b) - 1

\* mutant: the two categorical features change places
EncodeSwapped(in) ==
    <<BmiVal(in.bmi_category), in.age, in.sleep_duration, in.quality_of_sleep,
      in.physical_activity, in.stress_level, GenderVal(in.gender), in.daily_steps>>

\* np.array([[gender_val, age, sleep_duration, quality_of_sleep,
\*            physical_activity, stress_level, bmi_val, daily_steps]])
Encode(in) ==
    <<GenderVal(in.gender), in.age, in.sleep_duration, in.quality_of_sleep,
      in.physical_activity, in.stress_level, BmiVal(in.bmi_category), in.daily_steps>>

-----------------------------------------------------------------------------
(* Classification, lines 76-98 *)

\* mutant: the depression rule is tried before the anxiety rule
OverrideRuleDepressionFirst(in) ==
    IF in.sleep_duration <= 400 /\ in.physical_activity <= 2 /\ in.stress_level >= 6
      THEN "Depression"
    ELSE IF in.stress_level >= 9 /\ in.quality_of_sleep <= 3
      THEN "Anxiety"
    ELSE IF /\ in.stress_level <= 3 /\ in.sleep_duration >= 700
            /\ in.quality_of_sleep >= 7 /\ in.physical_activity >= 4
      THEN "No Disorder"
    ELSE None

\* the if / elif / elif chain of lines 83-90
OverrideRule(in) ==
    IF in.stress_level >= 9 /\ in.quality_of_sleep <= 3
      THEN "Anxiety"
    ELSE IF in.sleep_duration <= 400 /\ in.physical_activity <= 2 /\ in.stress_level >= 6
      THEN "Depression"
    ELSE IF /\ in.stress_level <= 3 /\ in.sleep_duration >= 700
            /\ in.quality_of_sleep >= 7 /\ in.physical_activity >= 4
      THEN "No Disorder"
    ELSE None

\* score * 0.3
Soften(score) == (score * 3) \div 10

\* mutant: the boost is added to the softened score
BlendAdded(scores, idx) ==
    [i \in 1..Len(scores) |->
        IF i = idx + 1 THEN Soften(scores[i]) + 700 ELSE Soften(scores[i])]

\* mutant: the scores are softened by 0.8
BlendWeak(scores, idx) ==
    [i \in 1..Len(scores) |-> IF i = idx + 1 THEN 700 ELSE (scores[i] * 8) \div 10]

\* confidence_scores = [score * 0.3 for score in confidence_scores]
\* confidence_scores[idx] = 0.7        (idx < len(confidence_scores))
Blend(scores, idx) ==
    [i \in 1..Len(scores) |-> IF i = idx + 1 THEN 700 ELSE Soften(scores[i])]

\* Lines 76-98 on the model's answer v for the input in: the exception raised, if
\* any, and the values of the script's variables where the lines stop.
Classify(in, v) ==
    LET none == [error |-> "none", predicted_class |-> -1, result |-> None,
                 override |-> None, confidence_scores |-> << >>]
    IN  IF Len(v) = 0
          THEN [none EXCEPT !.error = "ValueError@76"]       \* argmax of an empty array
        ELSE LET c == argmax(v) IN
        IF c >= Len(label_map)
          THEN [none EXCEPT !.error = "KeyError@80", !.predicted_class = c,
                            !.confidence_scores = v]         \* label_map[predicted_class]
        ELSE LET o == OverrideRule(in)
                 base == [none EXCEPT !.predicted_class = c, !.result = label_map[c + 1],
                                      !.override = o, !.confidence_scores = v]
             IN
        IF o = None
          THEN base
        ELSE IF LabelIndex(o) >= Len(v)
          THEN [base EXCEPT !.error = "IndexError@98", !.result = o,
                            !.confidence_scores = [i \in 1..Len(v) |-> Soften(v[i])]]
        ELSE [base EXCEPT !.result = o, !.confidence_scores = Blend(v, LabelIndex(o))]

-----------------------------------------------------------------------------
(* The session log, lines 100-114 *)

UserInput == [gender |-> gender, age |-> age, bmi_category |-> bmi_category,
              daily_steps |-> daily_steps, sleep_duration |-> sleep_duration,
              quality_of_sleep |-> quality_of_sleep,
              physical_activity |-> physical_activity, stress_level |-> stress_level]

LogEntry(in, label, scores) ==
    [Predicted |-> label, Confidence |-> MaxOf(scores), Input |-> in]

\* mutant: the newest entry is put first
LogPrepend(ls, e) == <<e>> \o ls

\* st.session_state.logs.append({...})
LogAppend(ls, e) == Append(ls, e)

-----------------------------------------------------------------------------
(* generate_input_tips, lines 18-44.  The tips are named here by their rule:
   "sleep_low"      Try to increase your sleep to 7-9 hours consistently.
   "sleep_over"     Oversleeping can also affect mood. Aim for 7-9 hours.
   "sleep_quality"  Improve your sleep quality by maintaining a regular bedtime ...
   "activity"       Start light activities like walking to improve mood and sleep.
   "stress"         High stress detected. Try mindfulness, breathing exercises ...
   "steps"          Increase your daily steps - aim for at least 5000-8000 per day.
   "diet"           Consider a balanced diet and moderate exercise ...
   "elder_activity" Gentle exercises like stretching or tai chi ...            *)

TipsFrom(tips0, in) ==
    LET t1 == IF in.sleep_duration < 600 THEN Append(tips0, "sleep_low")
              ELSE IF in.sleep_duration > 900 THEN Append(tips0, "sleep_over")
              ELSE tips0
        t2 == IF in.quality_of_sleep < 4 THEN Append(t1, "sleep_quality") ELSE t1
        t3 == IF in.physical_activity = 0 THEN Append(t2, "activity") ELSE t2
        t4 == IF in.stress_level > 6 THEN Append(t3, "stress") ELSE t3
        t5 == IF in.daily_steps < 3000 THEN Append(t4, "steps") ELSE t4
        t6 == IF in.bmi_category = "Obese" THEN Append(t5, "diet") ELSE t5
        t7 == IF in.age > 60 /\ in.physical_activity < 3
                THEN Append(t6, "elder_activity") ELSE t6
    IN  t7

\* mutant: the elder rule starts at 60
generate_input_tips_Age60(in) ==
    LET t == TipsFrom(<< >>, [in EXCEPT !.age = 0])
    IN  IF in.age >= 60 /\ in.physical_activity < 3 THEN Append(t, "elder_activity") ELSE t

\* mutant: the list outlives the call (tips=[] as a default argument), so a call
\* starts from what the calls before it left
generate_input_tips_Shared(in) ==
    LET before == IF tip_calls = {} THEN << >>
                  ELSE (CHOOSE c \in tip_calls :
                          \A d \in tip_calls : Len(d.tips) <= Len(c.tips)).tips
    IN  TipsFrom(before, in)

\* tips = [] ... return tips
generate_input_tips(in) == TipsFrom(<< >>, in)

-----------------------------------------------------------------------------
(* Charts, lines 141-155: ax1.pie(confidence_scores, labels=label_map.values())
   and ax2.bar(label_map.values(), confidence_scores) raise ValueError when the
   scores are not as many as the three labels. *)
ChartsRaise(scores) == Len(scores) # Len(label_map)


-----------------------------------------------------------------------------
(* The state machine *)

NoLocals ==
    /\ input_data' = << >>
    /\ calls' = 0
    /\ prediction' = << >>
    /\ predicted_class' = -1
    /\ result' = None
    /\ override' = None
    /\ confidence_scores' = << >>

SetWidgets(in) ==
    /\ gender' = in.gender
    /\ age' = in.age
    /\ bmi_category' = in.bmi_category
    /\ daily_steps' = in.daily_steps
    /\ sleep_duration' = in.sleep_duration
    /\ quality_of_sleep' = in.quality_of_sleep
    /\ physical_activity' = in.physical_activity
    /\ stress_level' = in.stress_level

\* The page after its first load: the form shows its defaults, the log is empty
\* (lines 14-15) and nothing was submitted.
Init ==
    /\ logs = << >>
    /\ submitted = FALSE
    /\ gender = Default.gender
    /\ age = Default.age
    /\ bmi_category = Default.bmi_category
    /\ daily_steps = Default.daily_steps
    /\ sleep_duration = Default.sleep_duration
    /\ quality_of_sleep = Default.quality_of_sleep
    /\ physical_activity = Default.physical_activity
    /\ stress_level = Default.stress_level
    /\ input_data = << >>
    /\ calls = 0
    /\ prediction = << >>
    /\ predicted_class = -1
    /\ result = None
    /\ override = None
    /\ confidence_scores = << >>
    /\ input_tips = << >>
    /\ pc = "idle"
    /\ error = "none"
    /\ completed = << >>
    /\ tip_calls = {}

\* Lines 67-129 of a run with the form submitted: the model answers v.
Run(in, v) ==
    LET r == Classify(in, v) IN
    /\ submitted' = TRUE
    /\ SetWidgets(in)
    /\ input_data' = Encode(in)
    /\ calls' = 1
    /\ prediction' = v
    /\ predicted_class' = r.predicted_class
    /\ result' = r.result
    /\ override' = r.override
    /\ confidence_scores' = r.confidence_scores
    /\ error' = r.error
    /\ logs' = IF r.error = "none"
                 THEN LogAppend(logs, LogEntry(in, r.result, r.confidence_scores))
                 ELSE logs
    /\ pc' = IF r.error = "none" THEN "tips" ELSE "idle"
    /\ input_tips' = << >>
    /\ UNCHANGED <<completed, tip_calls>>

\* Lines 67-75 of a run with the form submitted: model.predict raises.
RunModelRaises(in) ==
    /\ submitted' = TRUE
    /\ SetWidgets(in)
    /\ input_data' = Encode(in)
    /\ calls' = 1
    /\ prediction' = << >>
    /\ predicted_class' = -1
    /\ result' = None
    /\ override' = None
    /\ confidence_scores' = << >>
    /\ error' = "ModelError@75"
    /\ pc' = "idle"
    /\ input_tips' = << >>
    /\ UNCHANGED <<logs, completed, tip_calls>>

\* A submission in a session whose log has room
Submit ==
    /\ pc = "idle"
    /\ Len(logs) < MaxLogs
    /\ \E in \in SessionInputs, v \in SessionOutputs : Run(in, v)

SubmitModelRaises ==
    /\ pc = "idle"
    /\ Len(logs) < MaxLogs
    /\ \E in \in SessionInputs : RunModelRaises(in)

\* The submission of the form as it is filled in, in a session with an empty log
SubmitForm ==
    /\ pc = "idle"
    /\ logs = << >>
    /\ \E v \in ModelOutputs : Run(UserInput, v)

SubmitFormModelRaises ==
    /\ pc = "idle"
    /\ logs = << >>
    /\ RunModelRaises(UserInput)

\* Lines 131-139
Tips ==
    /\ pc = "tips"
    /\ input_tips' = generate_input_tips(UserInput)
    /\ tip_calls' = tip_calls \cup {[args |-> UserInput, tips |-> input_tips']}
    /\ pc' = "charts"
    /\ UNCHANGED <<logs, submitted, widgets, locals, error, completed>>

\* Lines 141-162
Charts ==
    /\ pc = "charts"
    /\ pc' = "idle"
    /\ IF ChartsRaise(confidence_scores)
         THEN error' = "ValueError@145" /\ UNCHANGED completed
         ELSE error' = "none" /\ completed' = Append(completed, logs[Len(logs)])
    /\ UNCHANGED <<logs, submitted, widgets, locals, input_tips, tip_calls>>

\* A run without submission (any other interaction with the page): lines 14-15
\* keep the log, lines 67-162 are skipped.
Rerun ==
    /\ pc = "idle"
    /\ submitted' = FALSE
    /\ NoLocals
    /\ input_tips' = << >>
    /\ error' = "none"
    /\ UNCHANGED <<logs, widgets, pc, completed, tip_calls>>

Next == Submit \/ SubmitModelRaises \/ Tips \/ Charts \/ Rerun

Spec == Init /\ [][Next]_vars

\* The form filled in with any of the inputs, before its submission
InitForm ==
    /\ \E in \in FormInputs :
          /\ gender = in.gender
          /\ age = in.age
          /\ bmi_category = in.bmi_category
          /\ daily_steps = in.daily_steps
          /\ sleep_duration = in.sleep_duration
          /\ quality_of_sleep = in.quality_of_sleep
          /\ physical_activity = in.physical_activity
          /\ stress_level = in.stress_level
    /\ logs = << >>
    /\ submitted = FALSE
    /\ input_data = << >>
    /\ calls = 0
    /\ prediction = << >>
    /\ predicted_class = -1
    /\ result = None
    /\ override = None
    /\ confidence_scores = << >>
    /\ input_tips = << >>
    /\ pc = "idle"
    /\ error = "none"
    /\ completed = << >>
    /\ tip_calls = {}

NextForm == SubmitForm \/ SubmitFormModelRaises \/ Tips \/ Charts \/ Rerun

SpecForm == InitForm /\ [][NextForm]_vars

-----------------------------------------------------------------------------
(* Properties *)

\* the model answered in the latest run
ModelAnswered == submitted /\ error # "ModelError@75"

\* the latest run reached the log append of line 101
Appended == submitted /\ error \in {"none", "ValueError@145"}

\* generate_input_tips has returned in the latest run
TipsReturned == Appended /\ pc \in {"charts", "idle"}

AnxietyRule == stress_level >= 9 /\ quality_of_sleep <= 3
DepressionRule == sleep_duration <= 400 /\ physical_activity <= 2 /\ stress_level >= 6
NoDisorderRule == /\ stress_level <= 3 /\ sleep_duration >= 700
                  /\ quality_of_sleep >= 7 /\ physical_activity >= 4

\* class index of a label, 0-based
ClassOf(label) == CASE label = "No Disorder" -> 0
                    [] label = "Anxiety" -> 1
                    [] label = "Depression" -> 2

RECURSIVE SumOf(_)
SumOf(v) == IF v = << >> THEN 0 ELSE v[1] + SumOf(Tail(v))

IsProbability(v) == /\ Len(v) = 3
                    /\ \A i \in 1..3 : v[i] >= 0
                    /\ SumOf(v) = 1000

LastEntry == logs[Len(logs)]

\* C1: with a 3-entry model output the submission yields a label, and the label
\* follows the override rules in priority order whatever the model said: Anxiety
\* when the anxiety rule matches (also when the depression rule matches too),
\* else Depression when the depression rule matches, else No Disorder when the
\* no-disorder rule matches.
OverridePriority ==
    (ModelAnswered /\ Len(prediction) = 3) =>
        /\ Appended
        /\ LastEntry.Predicted = result
        /\ AnxietyRule => result = "Anxiety"
        /\ (~AnxietyRule /\ DepressionRule) => result = "Depression"
        /\ (~AnxietyRule /\ ~DepressionRule /\ NoDisorderRule) => result = "No Disorder"

\* C1 witness: both the anxiety and the depression rule match, the model favours
\* the depression class, and the label is Anxiety
OverridePriorityWitness ==
    /\ Appended /\ Len(prediction) = 3
    /\ AnxietyRule /\ DepressionRule
    /\ predicted_class = 2
    /\ result = "Anxiety"

\* C2: when an override fired, the confidence vector holds 0.7 at the override
\* label's class index and 0.3 times the model's confidence at every other index;
\* model output [0.1, 0.2, 0.7] with an Anxiety override gives [0.03, 0.7, 0.21].
OverrideBlend ==
    (Appended /\ override # None) =>
        /\ result = override
        /\ Len(confidence_scores) = Len(prediction)
        /\ confidence_scores[ClassOf(override) + 1] = 700
        /\ \A i \in 1..Len(prediction) :
              i # ClassOf(override) + 1 => 10 * confidence_scores[i] = 3 * prediction[i]
        /\ (prediction = <<100, 200, 700>> /\ override = "Anxiety")
              => confidence_scores = <<30, 700, 210>>

\* C2 witness: the specification's end-to-end example
OverrideBlendWitness ==
    /\ Appended
    /\ UserInput = AnxietyExample
    /\ prediction = <<100, 200, 700>>
    /\ result = "Anxiety"
    /\ confidence_scores = <<30, 700, 210>>

\* C3: when no override rule matches the input and the model output has 3
\* entries, the label is the class of the first maximum of the model output and
\* the confidence vector is the model output.
NoOverrideKeepsModel ==
    (ModelAnswered /\ Len(prediction) = 3
       /\ ~AnxietyRule /\ ~DepressionRule /\ ~NoDisorderRule) =>
        /\ Appended
        /\ override = None
        /\ confidence_scores = prediction
        /\ \E k \in 0..2 :
              /\ result = label_map[k + 1]
              /\ \A j \in 0..2 : prediction[j + 1] <= prediction[k + 1]
              /\ \A j \in 0..2 : j < k => prediction[j + 1] < prediction[k + 1]

\* C3 witness: two classes tie for the maximum and the lower one is the label
NoOverrideKeepsModelWitness ==
    /\ Appended
    /\ override = None
    /\ prediction = <<0, 500, 500>>
    /\ result = "Anxiety"
    /\ confidence_scores = prediction

TipSlot(cond, tip) == IF cond THEN <<tip>> ELSE << >>

\* the tips the rules of the specification ask for, rule by rule
ExpectedTips ==
    TipSlot(sleep_duration < 600, "sleep_low")
    \o TipSlot(sleep_duration > 900, "sleep_over")
    \o TipSlot(quality_of_sleep < 4, "sleep_quality")
    \o TipSlot(physical_activity = 0, "activity")
    \o TipSlot(stress_level > 6, "stress")
    \o TipSlot(daily_steps < 3000, "steps")
    \o TipSlot(bmi_category = "Obese", "diet")
    \o TipSlot(age > 60 /\ physical_activity < 3, "elder_activity")

InSeq(x, sq) == \E i \in 1..Len(sq) : sq[i] = x

\* C4: generate_input_tips returns exactly the tips whose rule holds, in rule
\* order, each at most once; never both sleep tips; the empty list exactly when
\* no rule matches, as for the specification's example input.
TipsFollowRules ==
    TipsReturned =>
        /\ input_tips = ExpectedTips
        /\ \A i, j \in 1..Len(input_tips) : i # j => input_tips[i] # input_tips[j]
        /\ ~(InSeq("sleep_low", input_tips) /\ InSeq("sleep_over", input_tips))
        /\ InSeq("sleep_low", input_tips) <=> sleep_duration < 600
        /\ InSeq("sleep_over", input_tips) <=> sleep_duration > 900
        /\ InSeq("sleep_quality", input_tips) <=> quality_of_sleep < 4
        /\ InSeq("activity", input_tips) <=> physical_activity = 0
        /\ InSeq("stress", input_tips) <=> stress_level > 6
        /\ InSeq("steps", input_tips) <=> daily_steps < 3000
        /\ InSeq("diet", input_tips) <=> bmi_category = "Obese"
        /\ InSeq("elder_activity", input_tips) <=> (age > 60 /\ physical_activity < 3)
        /\ UserInput = NoTipsExample => input_tips = << >>

\* C4 witness: an input that matches seven rules gets seven tips
TipsFollowRulesWitness ==
    /\ TipsReturned
    /\ Len(input_tips) = 7
    /\ input_tips[1] = "sleep_low"
    /\ input_tips[7] = "elder_activity"

\* C5 (as claimed): a model output that has not 3 entries ends the submission
\* with an error before any label: nothing is logged.
MalformedOutputIsFatal ==
    (ModelAnswered /\ Len(prediction) # 3) =>
        /\ error \in {"ValueError@76", "KeyError@80", "IndexError@98"}
        /\ logs = << >>

\* C7: the model is called once per submission, with the 8 features in the
\* order gender, age, sleep duration, quality of sleep, physical activity,
\* stress level, BMI category, daily steps; Male is 1 and Female 0, the BMI
\* categories are 0 to 3, the other fields are passed as they are.
FeatureVectorOrder ==
    /\ submitted =>
        /\ calls = 1
        /\ Len(input_data) = 8
        /\ input_data[1] = (CASE gender = "Male" -> 1 [] gender = "Female" -> 0)
        /\ input_data[2] = age
        /\ input_data[3] = sleep_duration
        /\ input_data[4] = quality_of_sleep
        /\ input_data[5] = physical_activity
        /\ input_data[6] = stress_level
        /\ input_data[7] = (CASE bmi_category = "Underweight" -> 0
                              [] bmi_category = "Normal" -> 1
                              [] bmi_category = "Overweight" -> 2
                              [] bmi_category = "Obese" -> 3)
        /\ input_data[8] = daily_steps
    /\ ~submitted => calls = 0

\* C7 witness: a submission by an obese woman
FeatureVectorOrderWitness ==
    /\ submitted
    /\ gender = "Female" /\ bmi_category = "Obese"
    /\ input_data[1] = 0 /\ input_data[7] = 3
    /\ input_data[8] = 2999

\* C9 (as claimed): after an override on a probability vector the confidence
\* vector sums to less than 1.
OverrideSumBelowOne ==
    (Appended /\ override # None /\ IsProbability(prediction)) =>
        SumOf(confidence_scores) < 1000

\* C9 (amended): after an override on a probability vector the confidence vector
\* sums to at most 1, and to less than 1 exactly when the model's confidence
\* in the override class is positive.
OverrideSumAtMostOne ==
    (Appended /\ override # None /\ IsProbability(prediction)) =>
        /\ SumOf(confidence_scores) <= 1000
        /\ SumOf(confidence_scores) < 1000 <=> prediction[ClassOf(override) + 1] > 0
        /\ SumOf(confidence_scores) = 1000 - Soften(prediction[ClassOf(override) + 1])

\* C9 witness: the model gives the override class no confidence and the blended
\* vector sums to 1
OverrideSumAtMostOneWitness ==
    /\ Appended /\ override = "No Disorder"
    /\ prediction = <<0, 500, 500>>
    /\ confidence_scores = <<700, 150, 150>>

\* C10: when the model's three scores lie in [0, 1], the entry written to the
\* log records the confidence of the class it records as predicted, and that
\* confidence is the maximum of the final vector; after an override it is 0.7
\* and the override class is the only maximum.
LoggedConfidenceIsOfLabel ==
    (Appended /\ Len(prediction) = 3 /\ \A i \in 1..3 : prediction[i] \in 0..1000) =>
        /\ LastEntry.Predicted = result
        /\ LastEntry.Input = UserInput
        /\ LastEntry.Confidence = confidence_scores[ClassOf(LastEntry.Predicted) + 1]
        /\ \A i \in 1..3 : confidence_scores[i] <= LastEntry.Confidence
        /\ override # None =>
              /\ LastEntry.Predicted = override
              /\ LastEntry.Confidence = 700
              /\ \A i \in 1..3 :
                    i # ClassOf(override) + 1 => confidence_scores[i] < 700

\* C10 witness: the model is certain of another class than the override's
LoggedConfidenceIsOfLabelWitness ==
    /\ Appended
    /\ override = "Anxiety"
    /\ prediction = <<0, 0, 1000>>
    /\ LastEntry.Predicted = "Anxiety"
    /\ LastEntry.Confidence = 700

\* C6 (as claimed): between runs the log holds exactly the entries written by
\* the submissions that completed, in submission order and as they were written,
\* and none for a submission that failed.
LogHoldsCompletedSubmissions ==
    pc = "idle" => logs = completed

=============================================================================
